---- MODULE Spec2Model ----
(***************************************************************************)
(* Model of the capture layer of listen-tracing (src/src/lib.rs):          *)
(* BroadcastLogLayer::on_event builds a LogEntry, sends a clone on the     *)
(* tokio broadcast channel and spawns a task that appends the entry to the *)
(* shared LogCache (an RwLock<Vec<LogEntry>>) and then appends one JSON    *)
(* line to logs.jsonl.                                                     *)
(***************************************************************************)
EXTENDS Integers, Sequences, FiniteSets, TLC

(* ---- program constants ---- *)
\* lib.rs:89-91  `if logs.len() > 1000 { logs.drain(0..(len - 1000)) }`
Capacity == 1000

(* ---- bounds of the model ---- *)
\* number of events the emitting code hands to on_event
MaxEvents == 2
\* capacity of the broadcast ring buffer chosen by whoever built the channel
ChanCap == 1
\* largest reading of the wall clock
MaxClock == 1

\* emitting threads of the process
Threads == {"t1", "t2"}
\* receiver handles that may be created with tx.subscribe()
Receivers == {"r1", "r2"}
\* callers that read the cache under its read lock
Readers == {"q1"}

NoEntry == [seq |-> 0]

\* The events the emitting code produces, per thread: level, target and the
\* named fields in the order the visitor is shown them. The second carries no
\* field named "message".
EventsOf(t) ==
  IF t = "t1"
    THEN { [level |-> "INFO",  target |-> "app", fields |-> << <<"id", "7">>, <<"message", "m">> >>] }
    ELSE { [level |-> "ERROR", target |-> "db",  fields |-> << <<"id", "7">> >>] }

VARIABLES
  now,        \* the wall clock read by Utc::now()
  hook,       \* per emitting thread: position inside on_event and its locals
  emitted,    \* number of events handed to on_event so far (also numbers them)
  tasks,      \* the tasks spawned by on_event: id -> [pc, log_clone]
  cache,      \* the Vec<LogEntry> behind the LogCache lock
  rw,         \* the LogCache RwLock: the writing task (0: none), the readers holding it
  file,       \* what has been appended to logs.jsonl
  fileOk,     \* whether logs.jsonl can currently be opened and written
  chan,       \* broadcast channel: slots kept in the ring and the tail position
  rx,         \* per receiver handle: state and cursor
  inRuntime,  \* per emitting thread: whether it runs inside the tokio runtime
  len0,       \* history: length of the cache handed to setup_tracing_with_broadcast
  sends,      \* history: the values given to tx.send, in the order of the calls
  pushes,     \* history: the values pushed on the cache, in the order of the pushes
  got,        \* history: what each receiver has been handed by recv
  subAt,      \* history: the number of tx.send calls made before the receiver subscribed
  lagged,     \* history: whether recv ever reported the receiver as lagged
  reply       \* per reader: the filter of its last query and the result it got

vars == <<now, hook, emitted, tasks, cache, rw, file, fileOk, chan, rx,
          inRuntime, len0, sends, pushes, got, subAt, lagged, reply>>

(* ---- sequences ---- *)
Min(a, b) == IF a <= b THEN a ELSE b

Max(a, b) == IF a >= b THEN a ELSE b

\* Vec::drain(0..n): the vector without its first n elements
Drain(v, n) == SubSeq(v, n + 1, Len(v))

\* the last n elements of s (all of s when it is shorter)
LastN(s, n) == IF Len(s) <= n THEN s ELSE SubSeq(s, Len(s) - n + 1, Len(s))

Range(s) == {s[i] : i \in 1..Len(s)}

(* ---- the record ---- *)
None == <<>>
Some(x) == <<x>>

\* TracingVisitor::record_debug: only the field named "message" is kept
RecordDebug(message, field) ==
  IF field[1] = "message" THEN Some(field[2]) ELSE message

\* event.record(&mut visitor): the visitor is shown every field in turn
RECURSIVE Record(_, _)
Record(message, fields) ==
  IF fields = <<>> THEN message
  ELSE Record(RecordDebug(message, Head(fields)), Tail(fields))

\* visitor.message.unwrap_or_else(|| "<no message>")
UnwrapMessage(message) == IF message = None THEN "<no message>" ELSE message[1]

\* the LogEntry thread t builds in on_event for the n-th event of the process;
\* seq (its number in emission order) and by (the emitting thread) are no
\* fields of the entry
NewLogEntry(n, t, ev, clock) ==
  [seq |-> n, by |-> t, timestamp |-> clock, level |-> ev.level, target |-> ev.target,
   message |-> UnwrapMessage(Record(None, ev.fields))]

\* serde_json::to_string(&*log_clone): the four fields, in declaration order
ToJson(e) ==
  [json |-> <<e.timestamp, e.level, e.target, e.message>>, seq |-> e.seq]

\* the "\n" that writeln! writes after the formatted argument
Newline == [nl |-> TRUE]

\* an entry a cache handed to setup_tracing_with_broadcast already holds
OldEntry(i) ==
  [seq |-> i, timestamp |-> 0, level |-> "INFO", target |-> "app", message |-> "m"]

\* the lengths of the cache handed to setup_tracing_with_broadcast
InitLens == {0, Capacity - 1, Capacity + 2}

(* ---- the broadcast channel ---- *)
Active == {r \in Receivers : rx[r].state = "active"}

\* Sender::send: with no receiver the value comes back as an error and is
\* not stored; otherwise it takes the next slot of the ring
ChanSend(c, v) ==
  IF Active = {} THEN c
  ELSE [buf |-> LastN(Append(c.buf, v), ChanCap), pos |-> c.pos + 1]

\* position of the oldest value still in the ring
Oldest(c) == c.pos - Len(c.buf)

(* ---- the cache ---- *)
\* lib.rs:88
Push(logs, e) == Append(logs, e)

\* mutant: the surplus is computed against 1001
EvictOffByOne(logs) ==
  IF Len(logs) > Capacity THEN Drain(logs, Len(logs) - Capacity - 1) ELSE logs

\* mutant: the surplus is cut off the end of the vector
EvictNewest(logs) ==
  IF Len(logs) > Capacity THEN SubSeq(logs, 1, Capacity) ELSE logs

\* mutant: the vector is drained as soon as it holds 1000 entries
EvictEager(logs) ==
  IF Len(logs) >= Capacity THEN Drain(logs, Len(logs) - Capacity + 1) ELSE logs

\* lib.rs:89-92
Evict(logs) ==
  IF Len(logs) > Capacity THEN Drain(logs, Len(logs) - Capacity) ELSE logs

TaskIds == DOMAIN tasks

(* ---- the query engine (spec.md 3 and 4.4; lib.rs holds LogQuery only) ---- *)
\* page size of a query that names none
DefaultPageSize == 20

NoReply == [filter |-> <<>>, result |-> <<>>]

\* the LogQuery values the callers send
Filters ==
  [level : {None, Some("INFO"), Some("ERROR")},
   keyword : {None, Some("m"), Some("no")},
   page : {None, Some(1)},
   page_size : {None, Some(1)}]

\* the characters of the messages and keywords that occur
Chars(s) ==
  CASE s = "m" -> <<"m">>
    [] s = "no" -> <<"n", "o">>
    [] s = "<no message>" ->
         <<"<", "n", "o", " ", "m", "e", "s", "s", "a", "g", "e", ">">>

\* keyword containment, case-sensitive
Contains(hay, needle) ==
  \E i \in 0..(Len(hay) - Len(needle)) : SubSeq(hay, i + 1, i + Len(needle)) = needle

\* the entry matches every predicate the filter supplies
Matches(e, f) ==
  /\ f.level = None \/ e.level = f.level[1]
  /\ f.keyword = None \/ Contains(Chars(e.message), Chars(f.keyword[1]))

PageOf(f) == IF f.page = None THEN 0 ELSE f.page[1]

PageSizeOf(f) == IF f.page_size = None THEN DefaultPageSize ELSE f.page_size[1]

\* mutant: the page number is ignored
QueryResultFirstPage(snapshot, f) ==
  LET matching == SelectSeq(snapshot, LAMBDA e : Matches(e, f))
  IN  SubSeq(matching, 1, Min(Len(matching), PageSizeOf(f)))

\* filter in stored order, skip page * page_size matches, take page_size
QueryResult(snapshot, f) ==
  LET matching == SelectSeq(snapshot, LAMBDA e : Matches(e, f))
      skip == PageOf(f) * PageSizeOf(f)
      last == IF Len(matching) < skip + PageSizeOf(f)
                THEN Len(matching) ELSE skip + PageSizeOf(f)
  IN  SubSeq(matching, skip + 1, last)

SetTask(id, pc) == tasks' = [tasks EXCEPT ![id].pc = pc]

\* the process once setup_tracing_with_broadcast has installed the layer
Start ==
  /\ now = 0
  /\ hook = [t \in Threads |-> [pc |-> "idle", log |-> NoEntry]]
  /\ \E n \in InitLens :
       /\ cache = [i \in 1..n |-> OldEntry(i)]
       /\ emitted = n
       /\ len0 = n
  /\ tasks = <<>>
  /\ rw = [writer |-> 0, readers |-> {}]
  /\ file = <<>>
  /\ fileOk \in BOOLEAN
  /\ chan = [buf |-> <<>>, pos |-> 0]
  /\ rx = [r \in Receivers |-> [state |-> "none", next |-> 0]]
  /\ inRuntime \in [Threads -> BOOLEAN]
  /\ sends = <<>>
  /\ pushes = <<>>
  /\ got = [r \in Receivers |-> <<>>]
  /\ subAt = [r \in Receivers |-> 0]
  /\ lagged = [r \in Receivers |-> FALSE]
  /\ reply = [q \in Readers |-> NoReply]

(* ---- on_event, on the emitting thread ---- *)
\* mutant: the task is spawned as soon as the entry is built, before the send
OnEventBuildSpawns(t, ev) ==
  /\ hook[t].pc = "idle"
  /\ emitted - len0 < MaxEvents
  /\ emitted' = emitted + 1
  /\ hook' = [hook EXCEPT ![t] = [pc |-> "built", log |-> NewLogEntry(emitted + 1, t, ev, now)]]
  /\ tasks' = IF inRuntime[t]
                THEN tasks @@ ((emitted + 1) :>
                       [pc |-> "spawned", log_clone |-> NewLogEntry(emitted + 1, t, ev, now)])
                ELSE tasks
  /\ UNCHANGED <<now, cache, rw, file, fileOk, chan, rx, inRuntime,
                 len0, sends, pushes, got, subAt, lagged, reply>>

\* lib.rs:67-76: visit the fields, read the clock, build the entry
OnEventBuild(t, ev) ==
  /\ hook[t].pc = "idle"
  /\ emitted - len0 < MaxEvents
  /\ emitted' = emitted + 1
  /\ hook' = [hook EXCEPT ![t] = [pc |-> "built", log |-> NewLogEntry(emitted + 1, t, ev, now)]]
  /\ UNCHANGED <<now, tasks, cache, rw, file, fileOk, chan, rx, inRuntime,
                 len0, sends, pushes, got, subAt, lagged, reply>>

\* mutant: the hook returns when the send reports that nobody listens
OnEventSendOrReturn(t) ==
  /\ hook[t].pc = "built"
  /\ chan' = ChanSend(chan, hook[t].log)
  /\ sends' = Append(sends, hook[t].log)
  /\ hook' = IF Active = {}
               THEN [hook EXCEPT ![t] = [pc |-> "idle", log |-> NoEntry]]
               ELSE [hook EXCEPT ![t].pc = "sent"]
  /\ UNCHANGED <<now, emitted, tasks, cache, rw, file, fileOk, rx, inRuntime,
                 len0, pushes, got, subAt, lagged, reply>>

\* mutant: only entries of level ERROR are sent
OnEventSendErrors(t) ==
  /\ hook[t].pc = "built"
  /\ chan' = IF hook[t].log.level = "ERROR" THEN ChanSend(chan, hook[t].log) ELSE chan
  /\ sends' = Append(sends, hook[t].log)
  /\ hook' = [hook EXCEPT ![t].pc = "sent"]
  /\ UNCHANGED <<now, emitted, tasks, cache, rw, file, fileOk, rx, inRuntime,
                 len0, pushes, got, subAt, lagged, reply>>

\* mutant: the send waits until every receiver has room for the value
OnEventSendWaits(t) ==
  /\ hook[t].pc = "built"
  /\ \A r \in Active : chan.pos - rx[r].next < ChanCap
  /\ chan' = ChanSend(chan, hook[t].log)
  /\ sends' = Append(sends, hook[t].log)
  /\ hook' = [hook EXCEPT ![t].pc = "sent"]
  /\ UNCHANGED <<now, emitted, tasks, cache, rw, file, fileOk, rx, inRuntime,
                 len0, pushes, got, subAt, lagged, reply>>

\* lib.rs:79: let _ = self.tx.send((*log).clone())
OnEventSend(t) ==
  /\ hook[t].pc = "built"
  /\ chan' = ChanSend(chan, hook[t].log)
  /\ sends' = Append(sends, hook[t].log)
  /\ hook' = [hook EXCEPT ![t].pc = "sent"]
  /\ UNCHANGED <<now, emitted, tasks, cache, rw, file, fileOk, rx, inRuntime,
                 len0, pushes, got, subAt, lagged, reply>>

\* mutant: the hook waits for the cache lock before it schedules the task
OnEventSpawnAfterLock(t) ==
  /\ hook[t].pc = "sent"
  /\ inRuntime[t]
  /\ rw.writer = 0 /\ rw.readers = {}
  /\ tasks' = tasks @@ (hook[t].log.seq :> [pc |-> "spawned", log_clone |-> hook[t].log])
  /\ hook' = [hook EXCEPT ![t] = [pc |-> "idle", log |-> NoEntry]]
  /\ UNCHANGED <<now, emitted, cache, rw, file, fileOk, chan, rx, inRuntime,
                 len0, sends, pushes, got, subAt, lagged, reply>>

\* lib.rs:81-85,103: tokio::spawn on a thread inside the runtime, then return
OnEventSpawn(t) ==
  /\ hook[t].pc = "sent"
  /\ inRuntime[t]
  /\ tasks' = tasks @@ (hook[t].log.seq :> [pc |-> "spawned", log_clone |-> hook[t].log])
  /\ hook' = [hook EXCEPT ![t] = [pc |-> "idle", log |-> NoEntry]]
  /\ UNCHANGED <<now, emitted, cache, rw, file, fileOk, chan, rx, inRuntime,
                 len0, sends, pushes, got, subAt, lagged, reply>>

\* lib.rs:85: tokio::spawn panics when the calling thread has no runtime context
OnEventSpawnPanic(t) ==
  /\ hook[t].pc = "sent"
  /\ ~inRuntime[t]
  /\ hook' = [hook EXCEPT ![t].pc = "panicked"]
  /\ UNCHANGED <<now, emitted, tasks, cache, rw, file, fileOk, chan, rx, inRuntime,
                 len0, sends, pushes, got, subAt, lagged, reply>>

(* ---- the spawned task ---- *)
\* mutant: the task gives up before caching when the file is unavailable
TaskWriteIfFile(id) ==
  /\ tasks[id].pc = "spawned"
  /\ rw.writer = 0 /\ rw.readers = {}
  /\ rw' = IF fileOk THEN [rw EXCEPT !.writer = id] ELSE rw
  /\ SetTask(id, IF fileOk THEN "locked" ELSE "done")
  /\ UNCHANGED <<now, hook, emitted, cache, file, fileOk, chan, rx, inRuntime,
                 len0, sends, pushes, got, subAt, lagged, reply>>

\* mutant: the write lock is granted while readers hold the cache
TaskWriteAmongReaders(id) ==
  /\ tasks[id].pc = "spawned"
  /\ rw.writer = 0
  /\ rw' = [rw EXCEPT !.writer = id]
  /\ SetTask(id, "locked")
  /\ UNCHANGED <<now, hook, emitted, cache, file, fileOk, chan, rx, inRuntime,
                 len0, sends, pushes, got, subAt, lagged, reply>>

\* lib.rs:87: cache.write().await
TaskWrite(id) ==
  /\ tasks[id].pc = "spawned"
  /\ rw.writer = 0 /\ rw.readers = {}
  /\ rw' = [rw EXCEPT !.writer = id]
  /\ SetTask(id, "locked")
  /\ UNCHANGED <<now, hook, emitted, cache, file, fileOk, chan, rx, inRuntime,
                 len0, sends, pushes, got, subAt, lagged, reply>>

\* mutant: the entry pushed on the cache is stamped at the time of the push
TaskPushRestamped(id) ==
  /\ tasks[id].pc = "locked"
  /\ cache' = Push(cache, [tasks[id].log_clone EXCEPT !.timestamp = now])
  /\ pushes' = Append(pushes, tasks[id].log_clone)
  /\ SetTask(id, "pushed")
  /\ UNCHANGED <<now, hook, emitted, rw, file, fileOk, chan, rx, inRuntime,
                 len0, sends, got, subAt, lagged, reply>>

\* lib.rs:88: logs.push((*log_clone).clone())
TaskPush(id) ==
  /\ tasks[id].pc = "locked"
  /\ cache' = Push(cache, tasks[id].log_clone)
  /\ pushes' = Append(pushes, tasks[id].log_clone)
  /\ SetTask(id, "pushed")
  /\ UNCHANGED <<now, hook, emitted, rw, file, fileOk, chan, rx, inRuntime,
                 len0, sends, got, subAt, lagged, reply>>

\* mutant: the guard is not dropped at the end of the block
TaskEvictKeepsLock(id) ==
  /\ tasks[id].pc = "pushed"
  /\ cache' = Evict(cache)
  /\ SetTask(id, "unlocked")
  /\ UNCHANGED <<now, hook, emitted, rw, file, fileOk, chan, rx, inRuntime,
                 len0, sends, pushes, got, subAt, lagged, reply>>

\* lib.rs:89-93: drain the surplus, then the guard goes out of scope
TaskEvict(id) ==
  /\ tasks[id].pc = "pushed"
  /\ cache' = Evict(cache)
  /\ rw' = [rw EXCEPT !.writer = 0]
  /\ SetTask(id, "unlocked")
  /\ UNCHANGED <<now, hook, emitted, file, fileOk, chan, rx, inRuntime,
                 len0, sends, pushes, got, subAt, lagged, reply>>

\* lib.rs:95-99: OpenOptions::new().create(true).append(true).open("logs.jsonl");
\* on Err the `if let` body is skipped and the task ends
TaskOpen(id) ==
  /\ tasks[id].pc = "unlocked"
  /\ SetTask(id, IF fileOk THEN "opened" ELSE "done")
  /\ UNCHANGED <<now, hook, emitted, cache, rw, file, fileOk, chan, rx, inRuntime,
                 len0, sends, pushes, got, subAt, lagged, reply>>

\* lib.rs:100: writeln! formats "{}\n" straight into the unbuffered File:
\* first the JSON text is written; an error ends writeln! and is dropped
TaskWriteJson(id) ==
  /\ tasks[id].pc = "opened"
  /\ file' = IF fileOk THEN Append(file, ToJson(tasks[id].log_clone)) ELSE file
  /\ SetTask(id, IF fileOk THEN "wrote" ELSE "done")
  /\ UNCHANGED <<now, hook, emitted, cache, rw, fileOk, chan, rx, inRuntime,
                 len0, sends, pushes, got, subAt, lagged, reply>>

\* lib.rs:100: then the "\n" is written; the result is dropped
TaskWriteNewline(id) ==
  /\ tasks[id].pc = "wrote"
  /\ file' = IF fileOk THEN Append(file, Newline) ELSE file
  /\ SetTask(id, "done")
  /\ UNCHANGED <<now, hook, emitted, cache, rw, fileOk, chan, rx, inRuntime,
                 len0, sends, pushes, got, subAt, lagged, reply>>

(* ---- the environment ---- *)
\* Sender::subscribe: a new receiver starts at the tail of the ring
Subscribe(r) ==
  /\ rx[r].state = "none"
  /\ rx' = [rx EXCEPT ![r] = [state |-> "active", next |-> chan.pos]]
  /\ subAt' = [subAt EXCEPT ![r] = Len(sends)]
  /\ UNCHANGED <<now, hook, emitted, tasks, cache, rw, file, fileOk, chan, inRuntime,
                 len0, sends, pushes, got, lagged, reply>>

\* Receiver::recv with a value waiting: the value at the cursor, or, when the
\* ring has moved past the cursor, a Lagged error that moves the cursor to the
\* oldest value kept
Recv(r) ==
  /\ rx[r].state = "active"
  /\ rx[r].next < chan.pos
  /\ IF rx[r].next < Oldest(chan)
       THEN /\ rx' = [rx EXCEPT ![r].next = Oldest(chan)]
            /\ lagged' = [lagged EXCEPT ![r] = TRUE]
            /\ got' = got
       ELSE /\ rx' = [rx EXCEPT ![r].next = @ + 1]
            /\ got' = [got EXCEPT ![r] = Append(@, chan.buf[rx[r].next - Oldest(chan) + 1])]
            /\ lagged' = lagged
  /\ UNCHANGED <<now, hook, emitted, tasks, cache, rw, file, fileOk, chan, inRuntime,
                 len0, sends, pushes, subAt, reply>>

\* the receiver handle is dropped
DropReceiver(r) ==
  /\ rx[r].state = "active"
  /\ rx' = [rx EXCEPT ![r].state = "closed"]
  /\ UNCHANGED <<now, hook, emitted, tasks, cache, rw, file, fileOk, chan, inRuntime,
                 len0, sends, pushes, got, subAt, lagged, reply>>

\* a reader of the cache: cache.read().await, and the guard being dropped
ReadAcquire(q) ==
  /\ rw.writer = 0
  /\ q \notin rw.readers
  /\ rw' = [rw EXCEPT !.readers = @ \cup {q}]
  /\ UNCHANGED <<now, hook, emitted, tasks, cache, file, fileOk, chan, rx, inRuntime,
                 len0, sends, pushes, got, subAt, lagged, reply>>

ReadRelease(q) ==
  /\ q \in rw.readers
  /\ rw' = [rw EXCEPT !.readers = @ \ {q}]
  /\ UNCHANGED <<now, hook, emitted, tasks, cache, file, fileOk, chan, rx, inRuntime,
                 len0, sends, pushes, got, subAt, lagged, reply>>

\* query(filter), run by a reader that holds the read lock
Query(q, f) ==
  /\ q \in rw.readers
  /\ reply' = [reply EXCEPT ![q] = [filter |-> f, result |-> QueryResult(cache, f)]]
  /\ UNCHANGED <<now, hook, emitted, tasks, cache, rw, file, fileOk, chan, rx, inRuntime,
                 len0, sends, pushes, got, subAt, lagged>>

\* logs.jsonl becomes unavailable (directory removed, disk full) or available
FileToggle ==
  /\ fileOk' = ~fileOk
  /\ UNCHANGED <<now, hook, emitted, tasks, cache, rw, file, chan, rx, inRuntime,
                 len0, sends, pushes, got, subAt, lagged, reply>>

\* the wall clock moves; it is not monotonic
ClockSet ==
  /\ \E c \in 0..MaxClock : c # now /\ now' = c
  /\ UNCHANGED <<hook, emitted, tasks, cache, rw, file, fileOk, chan, rx, inRuntime,
                 len0, sends, pushes, got, subAt, lagged, reply>>

\* the wall clock advances; this is the clock at its best, one that is never
\* set back
ClockTick ==
  /\ now < MaxClock
  /\ now' = now + 1
  /\ UNCHANGED <<hook, emitted, tasks, cache, rw, file, fileOk, chan, rx, inRuntime,
                 len0, sends, pushes, got, subAt, lagged, reply>>

Hook ==
  \E t \in Threads :
    \/ \E ev \in EventsOf(t) : OnEventBuild(t, ev)
    \/ OnEventSend(t)
    \/ OnEventSpawn(t)
    \/ OnEventSpawnPanic(t)

Task ==
  \E id \in TaskIds :
    \/ TaskWrite(id)
    \/ TaskPush(id)
    \/ TaskEvict(id)
    \/ TaskOpen(id)
    \/ TaskWriteJson(id)
    \/ TaskWriteNewline(id)


(* ---- properties ---- *)

\* every call of on_event has returned or panicked and every task has ended
Settled ==
  /\ \A t \in Threads : hook[t].pc \in {"idle", "panicked"}
  /\ \A id \in TaskIds : tasks[id].pc = "done"

NoPanic == \A t \in Threads : hook[t].pc # "panicked"

\* C1: when the cache started with at most 1000 entries, it holds at most 1000
\* entries in every state in which no task holds the write lock.
CacheBounded ==
  (len0 <= Capacity /\ rw.writer = 0) => Len(cache) <= Capacity

\* two insertions have completed on a cache that started one below capacity:
\* the second one had to evict
CacheBoundedWitness ==
  /\ len0 = Capacity - 1
  /\ rw.writer = 0
  /\ Len(pushes) >= 2
  /\ Len(cache) = Capacity

\* C2: one insertion takes the cache from C to the last min(1000, |C|+1)
\* elements of C followed by the new record: the push appends the record at the
\* end, the eviction that follows removes from the front only, and nothing but
\* these two steps of the lock holder changes the cache.
InsertionEffect ==
  [][ /\ \A id \in TaskIds :
          LET e == tasks[id].log_clone IN
          /\ (tasks[id].pc = "locked" /\ tasks'[id].pc = "pushed")
               => cache' = Append(cache, e)
          /\ (tasks[id].pc = "pushed" /\ tasks'[id].pc = "unlocked")
               => LET C == SubSeq(cache, 1, Len(cache) - 1) IN
                  /\ cache = Append(C, e)
                  /\ cache' = LastN(Append(C, e), Min(Capacity, Len(C) + 1))
                  /\ cache'[Len(cache')] = e
      /\ cache' # cache
           => \E id \in TaskIds :
                /\ rw.writer = id
                /\ tasks[id].pc \in {"locked", "pushed"}
                /\ tasks'[id].pc # tasks[id].pc
    ]_vars

\* a task has just completed an insertion that evicted from the front
InsertionEffectWitness ==
  \E id \in TaskIds :
    /\ tasks[id].pc = "unlocked"
    /\ Len(cache) = Capacity
    /\ cache[Capacity] = tasks[id].log_clone
    /\ cache[1].seq > 1

\* C3 (as claimed): once everything has settled after more than `capacity`
\* events, none of which panicked, the cache holds exactly the last `capacity`
\* emitted events in emission order.
EmissionOrderKept ==
  (Settled /\ NoPanic /\ len0 <= Capacity /\ emitted > Capacity)
    => /\ Len(cache) = Capacity
       /\ \A i \in 1..Capacity : cache[i].seq = emitted - Capacity + i


\* f is a concatenation of whole lines: a serialized record, then one newline
WholeLines(f) ==
  /\ Len(f) % 2 = 0
  /\ \A i \in 1..Len(f) :
       IF i % 2 = 1 THEN "json" \in DOMAIN f[i] ELSE f[i] = Newline

\* the number of serialized copies of event n in f
Copies(f, n) ==
  Cardinality({i \in 1..Len(f) : "json" \in DOMAIN f[i] /\ f[i].seq = n})

\* C4 (as claimed): whatever the interleaving of the tasks, the log is a
\* concatenation of whole newline-terminated lines whenever no task is in the
\* middle of its writeln!.
LinesNeverInterleave ==
  (\A id \in TaskIds : tasks[id].pc # "wrote") => WholeLines(file)

\* C5 (as claimed): once everything has settled, and no call panicked, the log
\* holds exactly one well-formed line per event and the cache length is
\* min(number of events, capacity).
OneLinePerEvent ==
  (Settled /\ NoPanic /\ len0 <= Capacity)
    => /\ WholeLines(file)
       /\ \A n \in (len0 + 1)..emitted : Copies(file, n) = 1
       /\ Len(cache) = Min(emitted, Capacity)

\* C6 (as claimed): on_event returns normally on every emitting thread.
OnEventReturns == \A t \in Threads : hook[t].pc # "panicked"

\* C7: a call of on_event can always take its next step, whatever the state
\* of the cache lock, of the tasks and of the file, and no step of on_event
\* touches the cache, its lock or the file.
HookNeverWaits ==
  /\ [](\A t \in Threads :
          /\ (hook[t].pc = "idle" /\ emitted - len0 < MaxEvents)
               => ENABLED (\E ev \in EventsOf(t) : OnEventBuild(t, ev))
          /\ hook[t].pc = "built" => ENABLED OnEventSend(t)
          /\ hook[t].pc = "sent" => ENABLED (OnEventSpawn(t) \/ OnEventSpawnPanic(t)))
  /\ [][(\E t \in Threads : hook'[t] # hook[t]) => UNCHANGED <<cache, rw, file>>]_vars

\* a call of on_event is between its send and its spawn while a task holds
\* the write lock of the cache
HookNeverWaitsWitness ==
  \E t \in Threads : hook[t].pc = "sent" /\ inRuntime[t] /\ rw.writer # 0


\* task id has passed the locked block of lib.rs:86-93
PastCache(id) == tasks[id].pc \in {"unlocked", "opened", "wrote", "done"}

\* the step is task id ending on a failed open or a failed write
FailedStep(id) ==
  /\ tasks'[id].pc = "done"
  /\ \/ tasks[id].pc \in {"unlocked", "opened"}
     \/ tasks[id].pc = "wrote" /\ file' = file

\* C8: a failed open or write of logs.jsonl is swallowed: the record was sent
\* and cached before, the failing step ends the task and changes nothing
\* else, an ended task takes no further step, and a task that finds the file
\* available opens it and writes its record and its newline.
FailureSwallowed ==
  /\ [](\A id \in TaskIds :
          PastCache(id) => /\ tasks[id].log_clone \in Range(pushes)
                           /\ tasks[id].log_clone \in Range(sends))
  /\ [][\A id \in TaskIds :
          /\ FailedStep(id)
               => /\ tasks' = [tasks EXCEPT ![id].pc = "done"]
                  /\ UNCHANGED <<cache, pushes, rw, file, chan, hook>>
          /\ tasks[id].pc = "done" => tasks'[id] = tasks[id]
          /\ (fileOk /\ tasks'[id] # tasks[id])
               => /\ tasks[id].pc = "unlocked" => tasks'[id].pc = "opened"
                  /\ tasks[id].pc = "opened"
                       => file' = Append(file, ToJson(tasks[id].log_clone))
                  /\ tasks[id].pc = "wrote" => file' = Append(file, Newline)
       ]_vars

\* a task ended without its record in the file, its record is in the cache,
\* and a later event's record is in the cache and in the file
FailureSwallowedWitness ==
  \E a, b \in TaskIds :
    /\ a < b
    /\ tasks[a].pc = "done" /\ tasks[b].pc = "done"
    /\ Copies(file, a) = 0 /\ Copies(file, b) = 1
    /\ tasks[a].log_clone \in Range(cache)
    /\ tasks[b].log_clone \in Range(cache)

\* C9: a send that finds no receiver changes nothing in the channel and lets
\* on_event go on; every record handed to send is scheduled by its thread
\* (which, outside the runtime, panics at the spawn whether or not anybody
\* listens), and every scheduled record is pushed on the cache and, the file
\* being available, written once, with or without receivers.
NoReceiverSendIsNoOp ==
  /\ [][\A t \in Threads :
          (hook[t].pc = "built" /\ hook'[t] # hook[t] /\ Active = {})
            => /\ chan' = chan
               /\ rx' = rx
               /\ hook'[t] = [pc |-> "sent", log |-> hook[t].log]
       ]_vars
  /\ [](\A i \in 1..Len(sends) :
          \/ \E t \in Threads :
               /\ hook[t].log = sends[i]
               /\ \/ hook[t].pc = "sent"
                  \/ hook[t].pc = "panicked" /\ ~inRuntime[t]
          \/ /\ sends[i].seq \in TaskIds
             /\ tasks[sends[i].seq].log_clone = sends[i])
  /\ [](\A id \in TaskIds :
          /\ PastCache(id) => tasks[id].log_clone \in Range(pushes)
          /\ (tasks[id].pc = "done" /\ fileOk) => Copies(file, id) = 1)

\* no send has found a receiver, and a record sent so has been cached and
\* written by its task
NoReceiverSendIsNoOpWitness ==
  /\ chan.pos = 0
  /\ Active = {}
  /\ \E id \in TaskIds :
       /\ tasks[id].pc = "done"
       /\ tasks[id].log_clone \in Range(sends)
       /\ tasks[id].log_clone \in Range(cache)
       /\ Copies(file, id) = 1

\* the values handed to send after receiver r subscribed
SentAfter(r) == SubSeq(sends, subAt[r] + 1, Len(sends))

\* the values waiting in the ring for receiver r
Unread(r) == SubSeq(chan.buf, rx[r].next - Oldest(chan) + 1, Len(chan.buf))

\* C10: a receiver is never handed a record sent before it subscribed; while
\* it has not fallen behind the ring, what it was handed followed by what
\* waits for it is exactly what was sent since it subscribed, each once and
\* in send order.
SubscriberSeesLater ==
  \A r \in Receivers :
    /\ \A i \in 1..Len(got[r]) : \A j \in 1..subAt[r] : got[r][i] # sends[j]
    /\ ~lagged[r] => got[r] = SubSeq(SentAfter(r), 1, Len(got[r]))
    /\ (rx[r].state = "active" /\ ~lagged[r] /\ rx[r].next >= Oldest(chan))
         => got[r] \o Unread(r) = SentAfter(r)

\* a receiver that subscribed after the first send was handed the second
\* record and not the first
SubscriberSeesLaterWitness ==
  \E r \in Receivers :
    /\ subAt[r] = 1
    /\ Len(sends) >= 2
    /\ got[r] = <<sends[2]>>

\* position in s of the record numbered as e
PosIn(s, e) == CHOOSE j \in 1..Len(s) : s[j].seq = e.seq

\* C11: what any receiver has been handed is a subsequence of what was sent
\* since it subscribed (no duplicate, no reordering); a send is never held up
\* by a receiver that is behind; and while one receiver has lost records,
\* every receiver that has kept up has received or has waiting all of them.
LaggingLosesOldest ==
  /\ \A r \in Receivers :
       /\ \A i \in 1..Len(got[r]) : got[r][i] \in Range(SentAfter(r))
       /\ \A i, k \in 1..Len(got[r]) :
            i < k => PosIn(sends, got[r][i]) < PosIn(sends, got[r][k])
       /\ (rx[r].state = "active" /\ rx[r].next >= Oldest(chan))
            => Unread(r) = LastN(SentAfter(r), Len(Unread(r)))
  /\ \A t \in Threads : hook[t].pc = "built" => ENABLED OnEventSend(t)
  /\ \A r, o \in Receivers :
       (lagged[r] /\ rx[o].state = "active" /\ ~lagged[o] /\ rx[o].next >= Oldest(chan))
         => got[o] \o Unread(o) = SentAfter(o)

\* two receivers subscribed before the first send; one was handed both
\* records, the other fell behind and was handed the second only
LaggingLosesOldestWitness ==
  \E r, o \in Receivers :
    /\ subAt[r] = 0 /\ subAt[o] = 0
    /\ Len(sends) >= 2
    /\ lagged[r] /\ got[r] = <<sends[2]>>
    /\ ~lagged[o] /\ got[o] = <<sends[1], sends[2]>>

\* the records of s come in emission order within each emitting thread
ThreadOrder(s) ==
  \A i, k \in 1..Len(s) :
    (s[i].by = s[k].by /\ s[i].seq < s[k].seq) => i < k

\* the serialized records of the log, in file order
RECURSIVE JsonLines(_)
JsonLines(f) ==
  IF f = <<>> THEN <<>>
  ELSE IF "json" \in DOMAIN Head(f)
         THEN <<Head(f)>> \o JsonLines(Tail(f))
         ELSE JsonLines(Tail(f))

\* C12 (as claimed): once everything has settled, two events of one thread
\* were sent, were pushed on the cache and stand in the log in the order in
\* which the thread emitted them.
ThreadOrderKept ==
  Settled
    => /\ ThreadOrder(sends)
       /\ ThreadOrder(pushes)
       /\ \A i, k \in 1..Len(JsonLines(file)) :
            LET a == JsonLines(file)[i]
                b == JsonLines(file)[k] IN
            (tasks[a.seq].log_clone.by = tasks[b.seq].log_clone.by /\ a.seq < b.seq)
              => i < k

\* the tasks inside the locked block of lib.rs:86-93
InSection == {id \in TaskIds : tasks[id].pc \in {"locked", "pushed"}}

\* at most one task is inside its append-and-evict section, it is the holder
\* of the write lock, and no reader holds the cache meanwhile
SingleWriter ==
  /\ Cardinality(InSection) <= 1
  /\ InSection = {rw.writer} \ {0}
  /\ rw.writer # 0 => rw.readers = {}

\* C13 (as claimed): single writer, no reader beside a writer, and a reader
\* never sees more than 1000 entries or a half-applied eviction.
ReaderSeesBounded ==
  /\ SingleWriter
  /\ rw.readers # {}
       => /\ Len(cache) <= Capacity
          /\ \A id \in TaskIds : tasks[id].pc # "pushed"

\* C13 (amended): single writer, no reader beside a writer, a reader never
\* sees a half-applied eviction, and it never sees more than 1000 entries
\* when the cache started with at most 1000.
ReaderSeesBoundedFrom ==
  /\ SingleWriter
  /\ rw.readers # {}
       => /\ len0 <= Capacity => Len(cache) <= Capacity
          /\ \A id \in TaskIds : tasks[id].pc # "pushed"

\* a reader holds the cache after an insertion that evicted, while another
\* task waits for the write lock
ReaderSeesBoundedWitness ==
  /\ rw.readers # {}
  /\ len0 = Capacity - 1
  /\ Len(pushes) >= 1
  /\ Len(cache) = Capacity
  /\ \E id \in TaskIds : tasks[id].pc = "spawned"

\* C14 (as claimed): the timestamps of the records are non-decreasing in
\* the order in which the records are handed to the broadcast channel.
TimestampsMonotone ==
  \A i, k \in 1..Len(sends) :
    i < k => sends[i].timestamp <= sends[k].timestamp

\* the four fields of a LogEntry
Fields(e) == <<e.timestamp, e.level, e.target, e.message>>

\* C15: for every record handed to the broadcast channel, the clone its task
\* holds, the entry pushed on the cache and the serialized line carry the same
\* timestamp, level, target and message, and no step changes the record a
\* call of on_event or a task holds.
CopiesAgree ==
  /\ [](\A i \in 1..Len(sends) :
          LET e == sends[i] IN
          /\ e.seq \in TaskIds => Fields(tasks[e.seq].log_clone) = Fields(e)
          /\ \A k \in 1..Len(cache) :
               cache[k].seq = e.seq => Fields(cache[k]) = Fields(e)
          /\ \A k \in 1..Len(file) :
               ("json" \in DOMAIN file[k] /\ file[k].seq = e.seq)
                 => file[k].json = Fields(e))
  /\ [][/\ \A id \in TaskIds : tasks'[id].log_clone = tasks[id].log_clone
        /\ \A t \in Threads :
             hook[t].pc \in {"built", "sent"} => hook'[t].log \in {hook[t].log, NoEntry}
       ]_vars

\* a record has reached the channel, the cache and the log, and the clock
\* has advanced since the record was stamped
CopiesAgreeWitness ==
  \E i \in 1..Len(sends) :
    /\ sends[i].timestamp < now
    /\ \E k \in 1..Len(cache) : cache[k].seq = sends[i].seq
    /\ \E k \in 1..Len(file) : "json" \in DOMAIN file[k] /\ file[k].seq = sends[i].seq

\* the positions of the entries of the cache that match filter f
MatchAt(f) == {k \in 1..Len(cache) : Matches(cache[k], f)}

TasksDrain ==
  \A id \in 1..MaxEvents :
    [](id \in TaskIds
         => <>(/\ id \in TaskIds
               /\ tasks[id].pc = "done"
               /\ tasks[id].log_clone \in Range(pushes)))

\* every scheduled task has ended, two of them at least, with a reader
\* holding the cache again
TasksDrainWitness ==
  /\ Settled
  /\ Cardinality(TaskIds) >= 2
  /\ Len(pushes) = Cardinality(TaskIds)
  /\ rw.readers # {}

\* the tasks that are opening or writing logs.jsonl
InFilePhase == {id \in TaskIds : tasks[id].pc \in {"unlocked", "opened", "wrote"}}

\* C18: a task that has reached its file open or file write does not hold
\* the write lock: the lock is held only inside the locked block, and while
\* tasks are busy with the file a waiting task can take the lock as soon as
\* no reader and no task inside the block holds it.
LockFreeDuringFile ==
  /\ \A id \in TaskIds : (id \in InFilePhase \/ tasks[id].pc = "done") => rw.writer # id
  /\ rw.writer # 0 => rw.writer \in InSection
  /\ \A id \in TaskIds :
       (tasks[id].pc = "spawned" /\ InSection = {} /\ rw.readers = {})
         => ENABLED TaskWrite(id)

\* one task is between the two writes of its writeln! on a file that has
\* just become unavailable, while another task is inside the locked block
LockFreeDuringFileWitness ==
  \E a, b \in TaskIds :
    /\ tasks[a].pc = "wrote"
    /\ ~fileOk
    /\ tasks[b].pc \in {"locked", "pushed"}
    /\ rw.writer = b

\* C19: the send comes before the spawn and the push before the file write:
\* every record a task holds, every entry pushed on the cache and every
\* serialized record in the log was handed to the broadcast channel before,
\* and every record a task is writing or has written was pushed before.
PipelineOrder ==
  /\ \A i \in 1..Len(sends) : sends[i].seq <= emitted
  /\ \A id \in TaskIds : tasks[id].log_clone \in Range(sends)
  /\ \A k \in 1..Len(cache) :
       cache[k].seq > len0 => cache[k] \in Range(pushes) /\ cache[k] \in Range(sends)
  /\ \A id \in TaskIds :
       tasks[id].pc \in {"opened", "wrote"} => tasks[id].log_clone \in Range(pushes)
  /\ \A k \in 1..Len(file) :
       "json" \in DOMAIN file[k]
         => \E e \in Range(pushes) : ToJson(e) = file[k] /\ e \in Range(sends)

\* a record stands in the log, in the cache and among the records sent
PipelineOrderWitness ==
  \E k \in 1..Len(file) : \E e \in Range(sends) :
    /\ "json" \in DOMAIN file[k]
    /\ ToJson(e) = file[k]
    /\ e \in Range(cache)

\* C20: when the cache started with at most 1000 entries, it never holds
\* more than 1001, a step removes at most one entry, and it removes one only
\* from a cache of 1001 entries, that is after a push on a full cache.
EvictsAtMostOne ==
  /\ [](len0 <= Capacity => Len(cache) <= Capacity + 1)
  /\ [][len0 <= Capacity
          => /\ Len(cache') >= Len(cache) - 1
             /\ Len(cache') < Len(cache) => Len(cache) = Capacity + 1
             /\ (Len(cache) < Capacity /\ cache' # cache) => cache' = Append(cache, cache'[Len(cache')])
       ]_vars

\* a task has pushed its record on a full cache and is about to evict one
EvictsAtMostOneWitness ==
  \E id \in TaskIds :
    /\ len0 = Capacity - 1
    /\ tasks[id].pc = "pushed"
    /\ Len(cache) = Capacity + 1

Read == \E q \in Readers : ReadAcquire(q) \/ ReadRelease(q)

Receive == \E r \in Receivers : Subscribe(r) \/ Recv(r) \/ DropReceiver(r)

\* the pipeline with a concurrent reader of the cache and logs.jsonl writable
Init == Start /\ fileOk

Next ==
  \/ Hook
  \/ Task
  \/ Read

Spec == Init /\ [][Next]_vars

\* the pipeline on a cache that starts empty, with logs.jsonl coming and
\* going
InitFile == Start /\ len0 = 0

NextFile ==
  \/ Hook
  \/ Task
  \/ FileToggle

SpecFile == InitFile /\ [][NextFile]_vars

\* the pipeline with receivers of the broadcast channel, on a cache that
\* starts empty; one emitting thread is inside the runtime, the other is not
InitBcast ==
  /\ Start
  /\ len0 = 0
  /\ fileOk
  /\ inRuntime = [t \in Threads |-> t = "t1"]

NextBcast ==
  \/ Hook
  \/ Task
  \/ Receive

SpecBcast == InitBcast /\ [][NextBcast]_vars

\* the pipeline under an advancing wall clock, on a cache that starts empty
InitClock == Start /\ len0 = 0 /\ fileOk

NextClock ==
  \/ Hook
  \/ Task
  \/ ClockTick

SpecClock == InitClock /\ [][NextClock]_vars

\* the pipeline with a reader that queries the cache, on a cache that starts
\* empty; one emitting thread is inside the runtime, the other is not
InitQuery ==
  /\ Start
  /\ len0 = 0
  /\ fileOk
  /\ inRuntime = [t \in Threads |-> t = "t1"]

NextQuery ==
  \/ Hook
  \/ Task
  \/ Read
  \/ \E q \in Readers : \E f \in Filters : Query(q, f)

SpecQuery == InitQuery /\ [][NextQuery]_vars

\* the pipeline with a reader, on a cache that starts empty, under the
\* scheduling the runtime gives: a spawned task that can run is run, the
\* RwLock is fair (a task waiting for the write lock gets it once the holders
\* have released), and a reader releases the cache
TaskLock(id) == id \in TaskIds /\ TaskWrite(id)

TaskStep(id) ==
  /\ id \in TaskIds
  /\ \/ TaskPush(id)
     \/ TaskEvict(id)
     \/ TaskOpen(id)
     \/ TaskWriteJson(id)
     \/ TaskWriteNewline(id)

Fairness ==
  /\ \A id \in 1..MaxEvents : SF_vars(TaskLock(id)) /\ WF_vars(TaskStep(id))
  /\ \A q \in Readers : WF_vars(ReadRelease(q))

InitLive == Start /\ len0 = 0 /\ fileOk

SpecLive == InitLive /\ [][Next]_vars /\ Fairness

====
